---- MODULE Spec2Model ----
(***************************************************************************)
(* A model of pools.py: the benchmark driver (the __main__ block), the     *)
(* runner run_test and the aggregator summarize_test.                      *)
(*                                                                         *)
(* The module has three entry points, and a behaviour of the model is one  *)
(* use of one of them:                                                     *)
(*   "main"            the script: argument parsing, the sample grid, one  *)
(*                     run_test pass per pool type, the sorted result set; *)
(*   "run_test"        a direct call of run_test(work_type, job_sets,      *)
(*                     trials, pool_class, worker_count);                  *)
(*   "summarize_test"  a direct call of summarize_test(test_output).       *)
(*                                                                         *)
(* The pool classes (pools/*.py) are imported by pools.py and are not part *)
(* of the file: their constructor, run_*_test and destroy_pool are         *)
(* modelled from the Pool Backend Contract of the specification.           *)
(***************************************************************************)
EXTENDS Integers, Sequences, FiniteSets, TLC

VARIABLES
    entry,               \* which entry point this behaviour exercises
    pc,                  \* position in the code
    error,               \* the exception that ended the run, or "none"
    work_type,           \* args.work_type / the work_type argument
    max_work,            \* args.max_work
    samples,             \* args.samples
    trials,              \* args.trials / the trials argument
    noise,               \* the environment: what the measurements depend on
    pool_types,          \* the list of (pool class, worker count) pairs
    job_sets,            \* the sample grid
    idx,                 \* number of pool types the driver's map has consumed
    pool_class,          \* run_test's pool_class argument
    worker_count,        \* run_test's worker_count argument
    test_func,           \* run_test's test_func local
    pools,               \* every pool object constructed so far, in order
    gi,                  \* number of grid points the pass has consumed
    calls,               \* the test calls of the current pass, in order
    raws,                \* the RawResults the calls of the pass returned
    summarized_results,  \* run_test's summarized_results
    produced,            \* what each completed pass returned, in order
    all_results,         \* the driver's all_results
    all_results_dict,    \* the driver's all_results_dict, as ordered pairs
    test_output,         \* summarize_test's argument
    summary              \* summarize_test's return value

vars == <<entry, pc, error, work_type, max_work, samples, trials, noise,
          pool_types, job_sets, idx, pool_class, worker_count, test_func,
          pools, gi, calls, raws, summarized_results, produced, all_results,
          all_results_dict, test_output, summary>>

----------------------------------------------------------------------------
(* Bounds of the model *)

MaxWork == 4
MaxSamples == 10
MaxTrials == 2
MaxNoise == 1
MaxRawLen == 3

----------------------------------------------------------------------------
(* Arithmetic helpers *)

Max(a, b) == IF a >= b THEN a ELSE b

RECURSIVE Pow2(_)
Pow2(n) == IF n = 0 THEN 1 ELSE 2 * Pow2(n - 1)

RECURSIVE Gcd(_, _)
Gcd(a, b) == IF b = 0 THEN a ELSE Gcd(b, a % b)

RECURSIVE SeqSum(_)
SeqSum(s) == IF s = <<>> THEN 0 ELSE Head(s) + SeqSum(Tail(s))

\* int(a / b) for a >= 0, b >= 1: a true (float64) division, truncated.  The
\* quotient of two integers below 2^53 is correctly rounded and never reaches
\* the next integer, so the truncation is the floor of the exact quotient.
IntOfTrueDiv(a, b) == a \div b

\* range(start, stop, step) for step >= 1, as the sequence it iterates over.
RECURSIVE Range(_, _, _)
Range(start, stop, step) ==
    IF start >= stop THEN <<>>
    ELSE <<start>> \o Range(start + step, stop, step)

\* The mean taken with an integer division: the fraction is dropped.
floor_mean(s) ==
    IF Len(s) = 0 THEN [nan |-> TRUE, num |-> 0, den |-> 1]
    ELSE [nan |-> FALSE, num |-> SeqSum(s) \div Len(s), den |-> 1]

\* numpy.mean of a sequence of numbers, as the exact fraction in lowest terms;
\* the mean of an empty sequence is nan (numpy warns and does not raise).
numpy_mean(s) ==
    IF Len(s) = 0 THEN [nan |-> TRUE, num |-> 0, den |-> 1]
    ELSE LET t == SeqSum(s)
             g == Gcd(t, Len(s))
         IN  [nan |-> FALSE, num |-> t \div g, den |-> Len(s) \div g]

----------------------------------------------------------------------------
(* The pool types *)

\* The class names, as Python compares them: by code point, left to right.
CodePoints ==
    [EventletPool |-> <<69, 118, 101, 110, 116, 108, 101, 116, 80, 111, 111, 108>>,
     GeventPool |-> <<71, 101, 118, 101, 110, 116, 80, 111, 111, 108>>,
     MultiprocessingProcessPool |-> <<77, 117, 108, 116, 105, 112, 114, 111, 99, 101, 115, 115, 105, 110, 103, 80, 114, 111, 99, 101, 115, 115, 80, 111, 111, 108>>,
     MultiprocessingThreadPool |-> <<77, 117, 108, 116, 105, 112, 114, 111, 99, 101, 115, 115, 105, 110, 103, 84, 104, 114, 101, 97, 100, 80, 111, 111, 108>>,
     StandardProcessPool |-> <<83, 116, 97, 110, 100, 97, 114, 100, 80, 114, 111, 99, 101, 115, 115, 80, 111, 111, 108>>,
     StandardThreadPool |-> <<83, 116, 97, 110, 100, 97, 114, 100, 84, 104, 114, 101, 97, 100, 80, 111, 111, 108>>]

RECURSIVE SeqLess(_, _)
SeqLess(a, b) ==
    IF b = <<>> THEN FALSE
    ELSE IF a = <<>> THEN TRUE
    ELSE IF Head(a) # Head(b) THEN Head(a) < Head(b)
    ELSE SeqLess(Tail(a), Tail(b))

\* str.__lt__ on two class names.
StrLess(a, b) == SeqLess(CodePoints[a], CodePoints[b])

\* The list literal pool_types of the driver.
PoolTypesLiteral ==
    << <<"EventletPool", "concurrent_threads">>,
       <<"GeventPool", "concurrent_threads">>,
       <<"MultiprocessingProcessPool", "concurrent_processes">>,
       <<"MultiprocessingThreadPool", "concurrent_threads">>,
       <<"StandardProcessPool", "concurrent_processes">>,
       <<"StandardThreadPool", "concurrent_threads">> >>

PoolClasses == {PoolTypesLiteral[i][1] : i \in 1..Len(PoolTypesLiteral)}

Reverse(s) == [i \in 1..Len(s) |-> s[Len(s) + 1 - i]]

Rotate(s) == IF s = <<>> THEN s ELSE Tail(s) \o <<Head(s)>>

\* Orders in which the same six pool types can be listed (and so executed).
PoolOrders ==
    {PoolTypesLiteral, Reverse(PoolTypesLiteral), Rotate(Rotate(PoolTypesLiteral))}

----------------------------------------------------------------------------
(* The pool backend, from the Pool Backend Contract *)

ClassCost(cls) == Len(CodePoints[cls])

\* pool.run_compute_test / pool.run_network_test: one RawResult, with one time
\* and one blocks sample per trial and the job count it was given.
PoolRunTest(cls, func, jobs, ntrials, env) ==
    [jobs   |-> jobs,
     time   |-> [t \in 1..ntrials |->
                    ClassCost(cls) * (jobs + 1) + t * env
                      + (IF func = "run_network_test" THEN 1 ELSE 0)],
     blocks |-> [t \in 1..ntrials |-> 10 * ClassCost(cls) + jobs + t + env]]

\* pool_class(worker_count): a new, live pool object.
NewPool(cls, workers) ==
    [cls |-> cls, workers |-> workers, state |-> "live", destroys |-> 0]

\* pool.destroy_pool(): releases the pool; idempotent.
DestroyedPool(p) ==
    [p EXCEPT !.state = "destroyed", !.destroys = @ + 1]

----------------------------------------------------------------------------
(* summarize_test *)

summarize_test(out) ==
    [jobs   |-> out.jobs,
     time   |-> numpy_mean(out.time),
     blocks |-> numpy_mean(out.blocks)]

----------------------------------------------------------------------------
(* The sample grid of the driver *)

max_jobs_of(mw) == Pow2(mw)

\* The step rounded to the nearest integer instead of truncated.
job_step_rounded(mj, n) ==
    LET step == (2 * mj + n) \div (2 * n)
    IN  IF step = 0 THEN 1 ELSE step

job_step_of(mj, n) ==
    LET step == IntOfTrueDiv(mj, n)
    IN  IF step = 0 THEN 1 ELSE step

job_sets_of(mw, n) ==
    Range(0, max_jobs_of(mw) + 1, job_step_of(max_jobs_of(mw), n))

----------------------------------------------------------------------------
(* The result set of the driver *)

\* zip(names, results): pairs, as long as the shorter of the two.
Zip(names, results) ==
    LET n == IF Len(names) <= Len(results) THEN Len(names) ELSE Len(results)
    IN  [i \in 1..n |-> <<names[i], results[i]>>]

\* Tuple comparison: the class names decide (they are distinct).
PairLess(a, b) == StrLess(a[1], b[1])

RECURSIVE Insert(_, _)
Insert(x, s) ==
    IF s = <<>> THEN <<x>>
    ELSE IF PairLess(x, Head(s)) THEN <<x>> \o s
    ELSE <<Head(s)>> \o Insert(x, Tail(s))

\* The pairs left in the order of execution.
NotSorted(s) == s

\* sorted(pairs): a stable sort.
RECURSIVE Sorted(_)
Sorted(s) ==
    IF s = <<>> THEN <<>>
    ELSE Insert(s[Len(s)], Sorted(SubSeq(s, 1, Len(s) - 1)))

ClassNames(types) == [i \in 1..Len(types) |-> types[i][1]]

----------------------------------------------------------------------------
(* Inputs *)

\* argparse accepts only these for --work-type; run_test accepts only these.
WorkTypeChoices == {"compute", "network"}

\* What a caller can pass as work_type.
WorkTypes == WorkTypeChoices \cup {"bogus"}

\* The job_sets arguments of the direct run_test calls.
DirectJobSets == {<<>>, <<0>>, <<0, 1, 2>>, <<0, 4, 8>>}

SeqsOfLen(S, n) == [1..n -> S]

\* The test_output arguments of the direct summarize_test calls: the time and
\* blocks sequences have one sample per trial.
RawResults ==
    UNION {[jobs : {0, 5},
            time : SeqsOfLen({1, 2, 3}, n),
            blocks : SeqsOfLen({10, 20, 30}, n)] : n \in 0..MaxRawLen}

NoOutput == [jobs |-> 0, time |-> <<>>, blocks |-> <<>>]

InitCommon ==
    /\ error = "none"
    /\ idx = 0
    /\ test_func = "unset"
    /\ pools = <<>>
    /\ gi = 0
    /\ calls = <<>>
    /\ raws = <<>>
    /\ summarized_results = <<>>
    /\ produced = <<>>
    /\ all_results = <<>>
    /\ all_results_dict = <<>>
    /\ summary = <<>>

\* python pools.py [--work-type W] [--max-work M] [--samples S] [--trials R]
InitMain(orders) ==
    /\ entry = "main"
    /\ pc = "parse"
    /\ work_type \in WorkTypes
    /\ max_work \in -1..MaxWork
    /\ samples \in 0..MaxSamples
    /\ trials \in 0..MaxTrials
    /\ noise \in 0..MaxNoise
    /\ pool_types \in orders
    /\ job_sets = <<>>
    /\ pool_class = ""
    /\ worker_count = ""
    /\ test_output = NoOutput

\* run_test(work_type, job_sets, trials, pool_class, worker_count)
InitRunTest ==
    /\ entry = "run_test"
    /\ pc = "create"
    /\ work_type \in WorkTypes
    /\ max_work = 0
    /\ samples = 0
    /\ trials \in 1..MaxTrials
    /\ noise \in 0..MaxNoise
    /\ pool_types = <<>>
    /\ job_sets \in DirectJobSets
    /\ \E i \in 1..Len(PoolTypesLiteral) :
          /\ pool_class = PoolTypesLiteral[i][1]
          /\ worker_count = PoolTypesLiteral[i][2]
    /\ test_output = NoOutput

\* summarize_test(test_output)
InitSummarize ==
    /\ entry = "summarize_test"
    /\ pc = "summarize"
    /\ work_type = "compute"
    /\ max_work = 0
    /\ samples = 0
    /\ trials = 0
    /\ noise = 0
    /\ pool_types = <<>>
    /\ job_sets = <<>>
    /\ pool_class = ""
    /\ worker_count = ""
    /\ test_output \in RawResults

Init == InitCommon /\ (InitMain({PoolTypesLiteral}) \/ InitRunTest \/ InitSummarize)

\* The same, with the pool types listed in other orders.
InitOrders == InitCommon /\ (InitMain(PoolOrders) \/ InitRunTest \/ InitSummarize)

----------------------------------------------------------------------------
(* The driver: argument parsing and the sample grid *)

\* parse_args and the checks after it: a rejected argument ends the program
\* with a usage error before anything else happens.
ParseArgs ==
    /\ pc = "parse"
    /\ IF work_type \notin WorkTypeChoices \/ samples < 1 \/ trials < 1
         THEN /\ pc' = "usage_error"
              /\ error' = "UsageError"
         ELSE /\ pc' = "grid"
              /\ error' = error
    /\ UNCHANGED <<entry, work_type, max_work, samples, trials, noise,
                   pool_types, job_sets, idx, pool_class, worker_count,
                   test_func, pools, gi, calls, raws, summarized_results,
                   produced, all_results, all_results_dict, test_output,
                   summary>>

\* max_jobs, job_step, job_sets.  A negative max_work makes max_jobs a float,
\* which range() rejects with a TypeError.
BuildGrid ==
    /\ pc = "grid"
    /\ IF max_work < 0
         THEN /\ pc' = "aborted"
              /\ error' = "TypeError"
              /\ job_sets' = job_sets
         ELSE /\ pc' = "next"
              /\ error' = error
              /\ job_sets' = job_sets_of(max_work, samples)
    /\ UNCHANGED <<entry, work_type, max_work, samples, trials, noise,
                   pool_types, idx, pool_class, worker_count, test_func,
                   pools, gi, calls, raws, summarized_results, produced,
                   all_results, all_results_dict, test_output, summary>>

\* list(map(lambda pool_class_tuple: run_test(...), pool_types)): the next
\* pool type is taken and run_test is called with it.
CallRunTest ==
    /\ pc = "next"
    /\ idx < Len(pool_types)
    /\ idx' = idx + 1
    /\ pool_class' = pool_types[idx + 1][1]
    /\ worker_count' = pool_types[idx + 1][2]
    /\ pc' = "create"
    /\ UNCHANGED <<entry, error, work_type, max_work, samples, trials, noise,
                   pool_types, job_sets, test_func, pools, gi, calls, raws,
                   summarized_results, produced, all_results,
                   all_results_dict, test_output, summary>>

\* The map over pool_types is exhausted: all_results_dict is built and sorted.
BuildResultsDict ==
    /\ pc = "next"
    /\ idx = Len(pool_types)
    /\ all_results_dict' = Sorted(Zip(ClassNames(pool_types), all_results))
    /\ pc' = "done"
    /\ UNCHANGED <<entry, error, work_type, max_work, samples, trials, noise,
                   pool_types, job_sets, idx, pool_class, worker_count,
                   test_func, pools, gi, calls, raws, summarized_results,
                   produced, all_results, test_output, summary>>

----------------------------------------------------------------------------
(* run_test *)

CurrentPool == pools[Len(pools)]

\* pool = pool_class(worker_count)
CreatePool ==
    /\ pc = "create"
    /\ pools' = Append(pools, NewPool(pool_class, worker_count))
    /\ gi' = 0
    /\ calls' = <<>>
    /\ raws' = <<>>
    /\ summarized_results' = <<>>
    /\ test_func' = "unset"
    /\ pc' = "select"
    /\ UNCHANGED <<entry, error, work_type, max_work, samples, trials, noise,
                   pool_types, job_sets, idx, pool_class, worker_count,
                   produced, all_results, all_results_dict, test_output,
                   summary>>

\* The constructor raises: nothing in run_test or in the driver catches it.
CreatePoolFails ==
    /\ pc = "create"
    /\ error' = "PoolCreationError"
    /\ pc' = "aborted"
    /\ UNCHANGED <<entry, work_type, max_work, samples, trials, noise,
                   pool_types, job_sets, idx, pool_class, worker_count,
                   test_func, pools, gi, calls, raws, summarized_results,
                   produced, all_results, all_results_dict, test_output,
                   summary>>

\* if work_type == 'compute' ... elif work_type == 'network' ...
SelectTestFunc ==
    /\ pc = "select"
    /\ work_type \in WorkTypeChoices
    /\ test_func' = IF work_type = "compute" THEN "run_compute_test"
                                             ELSE "run_network_test"
    /\ pc' = "loop"
    /\ UNCHANGED <<entry, error, work_type, max_work, samples, trials, noise,
                   pool_types, job_sets, idx, pool_class, worker_count, pools,
                   gi, calls, raws, summarized_results, produced, all_results,
                   all_results_dict, test_output, summary>>

\* else: raise Exception(f"Invalid work type: {work_type}")
RaiseInvalidWorkType ==
    /\ pc = "select"
    /\ work_type \notin WorkTypeChoices
    /\ error' = "InvalidWorkType"
    /\ pc' = "aborted"
    /\ UNCHANGED <<entry, work_type, max_work, samples, trials, noise,
                   pool_types, job_sets, idx, pool_class, worker_count,
                   test_func, pools, gi, calls, raws, summarized_results,
                   produced, all_results, all_results_dict, test_output,
                   summary>>

\* The entry put at the front of the list instead of at its end.
PrependResult(results, r) == <<r>> \o results

\* The entry list() adds to summarized_results for one grid point.
AppendResult(results, r) == Append(results, r)

\* One item of list(map(summarize_test, map(lambda jobs: test_func(...),
\* job_sets))): the next grid point is taken, test_func is called on the pool,
\* its RawResult is summarized and the summary is appended.
RunGridPoint ==
    /\ pc = "loop"
    /\ gi < Len(job_sets)
    /\ LET jobs == job_sets[gi + 1]
           raw  == PoolRunTest(pool_class, test_func, jobs, trials, noise)
       IN  /\ calls' = Append(calls, [jobs |-> jobs,
                                      live |-> CurrentPool.state = "live"])
           /\ raws' = Append(raws, raw)
           /\ summarized_results' =
                  AppendResult(summarized_results, summarize_test(raw))
    /\ gi' = gi + 1
    /\ UNCHANGED <<entry, pc, error, work_type, max_work, samples, trials,
                   noise, pool_types, job_sets, idx, pool_class, worker_count,
                   test_func, pools, produced, all_results, all_results_dict,
                   test_output, summary>>

\* test_func raises for the next grid point: nothing catches it.
TestCallFails ==
    /\ pc = "loop"
    /\ gi < Len(job_sets)
    /\ calls' = Append(calls, [jobs |-> job_sets[gi + 1],
                               live |-> CurrentPool.state = "live"])
    /\ error' = "TestError"
    /\ pc' = "aborted"
    /\ UNCHANGED <<entry, work_type, max_work, samples, trials, noise,
                   pool_types, job_sets, idx, pool_class, worker_count,
                   test_func, pools, gi, raws, summarized_results, produced,
                   all_results, all_results_dict, test_output, summary>>

\* pool.destroy_pool(), moved before the list is built.
DestroyPoolEarly ==
    /\ pc = "loop"
    /\ CurrentPool.state = "live" \/ gi = Len(job_sets)
    /\ pools' = [pools EXCEPT ![Len(pools)] = DestroyedPool(@)]
    /\ pc' = IF gi = Len(job_sets) THEN "return" ELSE "loop"
    /\ UNCHANGED <<entry, error, work_type, max_work, samples, trials, noise,
                   pool_types, job_sets, idx, pool_class, worker_count,
                   test_func, gi, calls, raws, summarized_results, produced,
                   all_results, all_results_dict, test_output, summary>>

\* pool.destroy_pool(), a no-op.
DestroyPoolSkipped ==
    /\ pc = "loop"
    /\ gi = Len(job_sets)
    /\ pc' = "return"
    /\ UNCHANGED <<entry, error, work_type, max_work, samples, trials, noise,
                   pool_types, job_sets, idx, pool_class, worker_count, pools,
                   test_func, gi, calls, raws, summarized_results, produced,
                   all_results, all_results_dict, test_output, summary>>

\* list() has exhausted the map: pool.destroy_pool()
DestroyPool ==
    /\ pc = "loop"
    /\ gi = Len(job_sets)
    /\ pools' = [pools EXCEPT ![Len(pools)] = DestroyedPool(@)]
    /\ pc' = "return"
    /\ UNCHANGED <<entry, error, work_type, max_work, samples, trials, noise,
                   pool_types, job_sets, idx, pool_class, worker_count,
                   test_func, gi, calls, raws, summarized_results, produced,
                   all_results, all_results_dict, test_output, summary>>

\* return summarized_results: to the direct caller, or to the driver's map,
\* whose list() appends it to all_results.
ReturnResults ==
    /\ pc = "return"
    /\ produced' = Append(produced, [cls     |-> pool_class,
                                     pool    |-> Len(pools),
                                     grid    |-> Len(job_sets),
                                     calls   |-> calls,
                                     raws    |-> raws,
                                     results |-> summarized_results])
    /\ IF entry = "main"
         THEN /\ all_results' = Append(all_results, summarized_results)
              /\ pc' = "next"
         ELSE /\ all_results' = all_results
              /\ pc' = "done"
    /\ UNCHANGED <<entry, error, work_type, max_work, samples, trials, noise,
                   pool_types, job_sets, idx, pool_class, worker_count,
                   test_func, pools, gi, calls, raws, summarized_results,
                   all_results_dict, test_output, summary>>

----------------------------------------------------------------------------
(* A direct call of summarize_test *)

Summarize ==
    /\ pc = "summarize"
    /\ summary' = <<summarize_test(test_output)>>
    /\ pc' = "done"
    /\ UNCHANGED <<entry, error, work_type, max_work, samples, trials, noise,
                   pool_types, job_sets, idx, pool_class, worker_count,
                   test_func, pools, gi, calls, raws, summarized_results,
                   produced, all_results, all_results_dict, test_output>>

----------------------------------------------------------------------------

Next ==
    \/ ParseArgs
    \/ BuildGrid
    \/ CallRunTest
    \/ BuildResultsDict
    \/ CreatePool
    \/ CreatePoolFails
    \/ SelectTestFunc
    \/ RaiseInvalidWorkType
    \/ RunGridPoint
    \/ TestCallFails
    \/ DestroyPool
    \/ ReturnResults
    \/ Summarize

Spec == Init /\ [][Next]_vars

SpecOrders == InitOrders /\ [][Next]_vars

Terminated == pc \in {"done", "aborted", "usage_error"}

----------------------------------------------------------------------------
(* Properties *)

\* The driver has built its sample grid.
GridBuilt ==
    /\ entry = "main"
    /\ pc \notin {"parse", "grid", "usage_error"}
    /\ error # "TypeError"

LivePools == {i \in 1..Len(pools) : pools[i].state = "live"}

\* C1: run_test with a work_type other than 'compute' and 'network' fails
\* with the invalid-work-type error before any pool is created: no state has
\* the invalid-work-type error raised and a pool constructed.
C1_InvalidWorkTypeBeforeAnyPool ==
    error = "InvalidWorkType" => pools = <<>>

\* C2: during a driver run at most one pool is live, and every pool but the
\* one created last has been destroyed (the pool of backend i is destroyed
\* before the pool of backend i+1 is created).
C2_AtMostOnePoolLive ==
    entry = "main" =>
        /\ Cardinality(LivePools) <= 1
        /\ \A i \in 1..Len(pools) - 1 : pools[i].state = "destroyed"

C2_Witness ==
    /\ entry = "main"
    /\ Len(pools) >= 2
    /\ CurrentPool.state = "live"
    /\ CurrentPool.cls = pool_types[2][1]
    /\ pools[1].cls = pool_types[1][1]

C4_GridLength ==
    GridBuilt =>
        /\ Len(job_sets) <= samples + 1
        /\ \/ Len(job_sets) = samples + 1
           \/ /\ Len(job_sets) < samples + 1
              /\ Pow2(max_work) % samples # 0

\* C5: if creating the pool of one backend variant fails, the driver is not
\* aborted: it ends normally, the failed backend is missing from the result
\* set and every later backend variant has been benchmarked.
C5_PoolCreationFailureSkipsBackend ==
    (entry = "main" /\ Terminated /\ error = "PoolCreationError") =>
        /\ pc = "done"
        /\ \A j \in idx + 1..Len(pool_types) :
              \E k \in 1..Len(produced) : produced[k].cls = pool_types[j][1]
        /\ \A k \in 1..Len(all_results_dict) :
              all_results_dict[k][1] # pool_class

\* C6: if the test call of one grid point fails inside run_test, the pass
\* goes on: it ends with one entry per grid point and with its pool
\* destroyed.
C6_GridPointFailureContinues ==
    (Terminated /\ error = "TestError") =>
        /\ Len(summarized_results) = Len(job_sets)
        /\ CurrentPool.state = "destroyed"

\* One pass called the test once per grid point, in grid order, and its i-th
\* summary carries the jobs value the i-th call returned.
PassInGridOrder(grid, callSeq, rawSeq, results) ==
    /\ Len(callSeq) = Len(grid)
    /\ \A i \in 1..Len(grid) : callSeq[i].jobs = grid[i]
    /\ Len(rawSeq) = Len(grid)
    /\ Len(results) = Len(grid)
    /\ \A i \in 1..Len(grid) : results[i].jobs = rawSeq[i].jobs

\* C7: a backend pass that completes has invoked the selected run_*_test
\* exactly once per grid point in ascending grid order, and returns a
\* sequence as long as the grid whose i-th SummaryResult has the jobs value
\* returned for the i-th grid point; while a pass runs, its calls are a
\* prefix of the grid.
C7_OneCallPerGridPointInOrder ==
    /\ pc \in {"loop", "return"} =>
          /\ Len(calls) <= Len(job_sets)
          /\ \A i \in 1..Len(calls) : calls[i].jobs = job_sets[i]
    /\ pc = "return" =>
          PassInGridOrder(job_sets, calls, raws, summarized_results)
    /\ \A k \in 1..Len(produced) :
          PassInGridOrder(job_sets, produced[k].calls, produced[k].raws,
                          produced[k].results)

C7_Witness ==
    /\ entry = "main"
    /\ pc = "return"
    /\ Len(job_sets) >= 3
    /\ Len(produced) >= 1
    /\ summarized_results[3].jobs = job_sets[3]

\* C8: the result set handed to reporting has one entry per backend variant,
\* under distinct backend names in ascending name order whatever the order of
\* execution, and each name maps to the results its own pass returned.
C8_ResultSetSortedByName ==
    (entry = "main" /\ pc = "done") =>
        /\ Len(all_results_dict) = Len(PoolTypesLiteral)
        /\ ClassNames(all_results_dict) =
              <<"EventletPool", "GeventPool", "MultiprocessingProcessPool",
                "MultiprocessingThreadPool", "StandardProcessPool",
                "StandardThreadPool">>
        /\ \A i, j \in 1..Len(all_results_dict) :
              i < j => StrLess(all_results_dict[i][1], all_results_dict[j][1])
        /\ \A i \in 1..Len(all_results_dict) :
              \E k \in 1..Len(produced) :
                 /\ produced[k].cls = all_results_dict[i][1]
                 /\ produced[k].results = all_results_dict[i][2]

C8_Witness ==
    /\ entry = "main"
    /\ pc = "done"
    /\ pool_types = Reverse(PoolTypesLiteral)
    /\ Len(all_results_dict) = 6
    /\ Len(job_sets) >= 2
    /\ all_results_dict[1][1] = "EventletPool"
    /\ all_results_dict[1][2] = all_results[6]

\* s is the arithmetic mean of the samples of seq: no sample dropped or
\* weighted.
IsMeanOf(m, seq) ==
    /\ ~m.nan
    /\ m.den >= 1
    /\ m.num * Len(seq) = SeqSum(seq) * m.den

IsSummaryOf(r, out) ==
    /\ r.jobs = out.jobs
    /\ IsMeanOf(r.time, out.time)
    /\ IsMeanOf(r.blocks, out.blocks)

\* C9: for a RawResult with at least one trial, summarize_test returns jobs
\* unchanged, time the arithmetic mean of all time samples and blocks the
\* arithmetic mean of all blocks samples; jobs 5, time [1,2,3], blocks
\* [10,20,30] gives jobs 5, time 2, blocks 20.
C9_SummarizeIsMean ==
    /\ (entry = "summarize_test" /\ pc = "done"
           /\ Len(test_output.time) >= 1 /\ Len(test_output.blocks) >= 1) =>
          /\ Len(summary) = 1
          /\ IsSummaryOf(summary[1], test_output)
          /\ test_output = [jobs |-> 5, time |-> <<1, 2, 3>>,
                            blocks |-> <<10, 20, 30>>] =>
                summary[1] = [jobs |-> 5,
                              time |-> [nan |-> FALSE, num |-> 2, den |-> 1],
                              blocks |-> [nan |-> FALSE, num |-> 20, den |-> 1]]
    /\ \A i \in 1..Len(summarized_results) :
          IsSummaryOf(summarized_results[i], raws[i])

C9_Witness ==
    /\ entry = "summarize_test"
    /\ pc = "done"
    /\ test_output = [jobs |-> 5, time |-> <<1, 2, 2>>,
                      blocks |-> <<10, 20, 30>>]
    /\ summary[1].time = [nan |-> FALSE, num |-> 5, den |-> 3]
    /\ summary[1].blocks.num = 20

\* C10: in a pass that completes, destroy_pool has been called exactly once
\* on the pool the pass created, and only after the test call of every grid
\* point has returned and been summarized; no test call is ever issued on a
\* pool that is not live.
C10_DestroyOnceAfterAllCalls ==
    /\ \A i \in 1..Len(calls) : calls[i].live
    /\ \A i \in 1..Len(pools) :
          /\ pools[i].destroys <= 1
          /\ pools[i].state = "destroyed" <=> pools[i].destroys = 1
    /\ (pc \in {"loop", "return"} /\ CurrentPool.state = "destroyed") =>
          /\ Len(calls) = Len(job_sets)
          /\ Len(summarized_results) = Len(job_sets)
    /\ pc = "return" => CurrentPool.destroys = 1
    /\ \A k \in 1..Len(produced) :
          /\ pools[produced[k].pool].destroys = 1
          /\ pools[produced[k].pool].cls = produced[k].cls
          /\ Len(produced[k].calls) = produced[k].grid
          /\ Len(produced[k].results) = produced[k].grid
          /\ \A i \in 1..Len(produced[k].calls) : produced[k].calls[i].live

C10_Witness ==
    /\ pc = "return"
    /\ Len(pools) >= 2
    /\ Len(calls) >= 2
    /\ CurrentPool.destroys = 1
    /\ \A i \in 1..Len(calls) : calls[i].live

====
